---- MODULE Spec2Model ----
(***************************************************************************)
(* Smart-home dashboard: the fake ESP server (server/server.js) and the    *)
(* polling React client (src/App.jsx).                                     *)
(*                                                                         *)
(* Numbers.  The JavaScript numbers are doubles; the model is fixed point: *)
(*   current_A  in mA, voltage_V in V, power_W in 0.1 mW (= 10 * V * mA;   *)
(*   the 0.0001 W of the pie chart is one unit), and energy_Wh in          *)
(*   0.1 mW*s, so that "energy_Wh += power_W / 3600" is the exact          *)
(*   addition of power_W.  The noise factor is in 1/1000 and the           *)
(*   product current_A * (1 + noise) is truncated to a whole mA, the       *)
(*   fixed-point counterpart of the rounding of the double product.        *)
(***************************************************************************)
EXTENDS Integers, Sequences, FiniteSets, Bags, TLC

(* ------------------------------ bounds -------------------------------- *)
\* number of simulation cycles the server may run (energy grows each cycle)
MaxCycles == 2
\* the wall clock (whole seconds since startup) stops advancing here
MaxTime == 1
\* status requests of the client that may be in flight at once
MaxPolls == 2
\* control requests of the client that may be in flight at once
MaxCmds == 1

(* --------------------------- program constants ------------------------ *)
LoadIds == {"lamp", "charger", "fan"}
\* property names every object literal inherits from Object.prototype
InheritedKeys == {"constructor"}
\* load ids a caller may send: the known ones, an unknown one, an inherited one
RequestIds == LoadIds \cup {"heater"} \cup InheritedKeys
\* JSON values of the "on" member of a request body ("absent": no member)
OnValues == {"true", "false", "absent"}
\* values of (Math.random() - 0.5) * 0.05 in 1/1000: the interval [-25, 25)
NoiseSet == {-25, 24}

\* JavaScript null (for the object-valued and the string-valued state)
Null == [ null |-> TRUE ]
NoError == "null"
\* a message without a body
NoBody == [ none |-> TRUE ]

\* a fetchStatus call in progress; phase is
\*   "sent"    the request is on its way to the server
\*   "ok"      the server has answered 200 with body, fetch() not yet resolved
\*   "failed"  an await of fetchStatus will throw: fetch() rejects or resolves
\*             with res.ok false, or res.json() rejects
\*   "json"    fetch() resolved with res.ok, res.json() not yet resolved
Poll(phase, body) == [ phase |-> phase, body |-> body ]
\* a toggleLoad call in progress; phase is "sent", "ok" or "failed"
Cmd(phase, loadId, on) == [ phase |-> phase, loadId |-> loadId, on |-> on ]

One(x) == SetToBag({x})

Max(a, b) == IF a >= b THEN a ELSE b

\* !!on
Truthy(v) == v = "true"

VARIABLES
  state,      \* server: the in-memory device state
  objectOn,   \* server: the "on" property set on an inherited object
  now,        \* Math.floor(Date.now() / 1000), seconds since startup
  cycles,     \* number of simulation cycles run so far
  lastReq,    \* the last request of a direct caller
  prev,       \* the server state just before that request
  resp,       \* the response to that request
  status,     \* client: useState(null), the last snapshot applied
  loading,    \* client: useState(true)
  error,      \* client: useState(null)
  lastUpdated,\* client: useState(null)
  cancelled,  \* client: the flag of the polling effect
  timer,      \* client: the interval of the polling effect, "set" or "cleared"
  polls,      \* the fetchStatus calls in progress (a bag)
  cmds,       \* the toggleLoad calls in progress (a bag)
  pending,    \* history: the loads whose local on flag was written by
              \* toggleLoad's updater after the last snapshot was applied
  derived     \* what the render derives from status: the summary numbers
              \* and the pie chart.  A render changes no state and takes
              \* no part in the exchange with the server: it is modelled
              \* by RenderApp alone

serverVars == <<state, objectOn, cycles>>
observed == <<lastReq, prev, resp>>
view == <<status, loading, error, lastUpdated>>
clientVars == <<status, loading, error, lastUpdated, cancelled, timer, polls,
                cmds, pending, derived>>
vars == <<state, objectOn, now, cycles, lastReq, prev, resp,
          status, loading, error, lastUpdated, cancelled, timer, polls, cmds,
          pending, derived>>

(* ------------------------------ server -------------------------------- *)
\* InitState with the bug "the fan starts on, drawing 0.5 A"
InitState_FanRunning ==
  [ timestamp |-> 0,
    loads |->
      [ lamp    |-> [ name |-> "Desk Lamp", on |-> TRUE, voltage_V |-> 120,
                      current_A |-> 250, power_W |-> 300000,
                      energy_Wh |-> 450000000 ],
        charger |-> [ name |-> "Phone Charger", on |-> TRUE, voltage_V |-> 5,
                      current_A |-> 1200, power_W |-> 60000,
                      energy_Wh |-> 122400000 ],
        fan     |-> [ name |-> "Desk Fan", on |-> TRUE, voltage_V |-> 120,
                      current_A |-> 500, power_W |-> 600000,
                      energy_Wh |-> 723600000 ] ],
    thresholds |-> [ highUsage_W |-> 500000 ],
    alerts |-> << >> ]

\* the state literal of the server
InitState ==
  [ timestamp |-> 0,
    loads |->
      [ lamp    |-> [ name |-> "Desk Lamp", on |-> TRUE, voltage_V |-> 120,
                      current_A |-> 250, power_W |-> 300000,
                      energy_Wh |-> 450000000 ],
        charger |-> [ name |-> "Phone Charger", on |-> TRUE, voltage_V |-> 5,
                      current_A |-> 1200, power_W |-> 60000,
                      energy_Wh |-> 122400000 ],
        fan     |-> [ name |-> "Desk Fan", on |-> FALSE, voltage_V |-> 120,
                      current_A |-> 0, power_W |-> 0,
                      energy_Wh |-> 723600000 ] ],
    thresholds |-> [ highUsage_W |-> 500000 ],
    alerts |-> << >> ]

\* UpdateLoad with the bug "a load that is off keeps its power reading"
UpdateLoad_KeepPower(load, noise) ==
  IF ~load.on
    THEN [load EXCEPT !.current_A = 0]
    ELSE LET cur == Max(0, (load.current_A * (1000 + noise)) \div 1000)
             pow == load.voltage_V * cur * 10
         IN  [load EXCEPT !.current_A = cur,
                          !.power_W = pow,
                          !.energy_Wh = load.energy_Wh + pow]

\* UpdateLoad with the bug "energy is accumulated from the previous power"
UpdateLoad_StaleEnergy(load, noise) ==
  IF ~load.on
    THEN [load EXCEPT !.current_A = 0, !.power_W = 0]
    ELSE LET cur == Max(0, (load.current_A * (1000 + noise)) \div 1000)
             pow == load.voltage_V * cur * 10
         IN  [load EXCEPT !.current_A = cur,
                          !.power_W = pow,
                          !.energy_Wh = load.energy_Wh + load.power_W]

\* UpdateLoad with the bug "a load found on with no current restarts at 250 mA"
UpdateLoad_Restart(load, noise) ==
  IF ~load.on
    THEN [load EXCEPT !.current_A = 0, !.power_W = 0]
    ELSE LET from == IF load.current_A = 0 THEN 250 ELSE load.current_A
             cur == Max(0, (from * (1000 + noise)) \div 1000)
             pow == load.voltage_V * cur * 10
         IN  [load EXCEPT !.current_A = cur,
                          !.power_W = pow,
                          !.energy_Wh = load.energy_Wh + pow]

\* one iteration of the for loop of updateFakeReadings
UpdateLoad(load, noise) ==
  IF ~load.on
    THEN [load EXCEPT !.current_A = 0, !.power_W = 0]
    ELSE LET cur == Max(0, (load.current_A * (1000 + noise)) \div 1000)
             pow == load.voltage_V * cur * 10
         IN  [load EXCEPT !.current_A = cur,
                          !.power_W = pow,
                          !.energy_Wh = load.energy_Wh + pow]

\* FanAlerts with the bug "|| instead of &&"
FanAlerts_Or(loads, thresholds, ts) ==
  IF loads["fan"].on \/ loads["fan"].power_W > thresholds.highUsage_W
    THEN << [ type |-> "HIGH_USAGE",
              loadId |-> "fan",
              message |-> <<"Fan above", thresholds.highUsage_W, "W">>,
              timestamp |-> ts ] >>
    ELSE << >>

\* the alert part of updateFakeReadings: cleared, then rebuilt
FanAlerts(loads, thresholds, ts) ==
  IF loads["fan"].on /\ loads["fan"].power_W > thresholds.highUsage_W
    THEN << [ type |-> "HIGH_USAGE",
              loadId |-> "fan",
              message |-> <<"Fan above", thresholds.highUsage_W, "W">>,
              timestamp |-> ts ] >>
    ELSE << >>

updateFakeReadings(st, t, noise) ==
  LET loads == [id \in LoadIds |-> UpdateLoad(st.loads[id], noise[id])]
  IN  [ timestamp |-> t,
        loads |-> loads,
        thresholds |-> st.thresholds,
        alerts |-> FanAlerts(loads, st.thresholds, t) ]

\* state.loads[loadId]: "own" for a load, "inherited" for a property found on
\* the prototype chain (a truthy object), "undefined" otherwise
LoadsLookup(loadId) ==
  IF loadId \in LoadIds THEN "own"
  ELSE IF loadId \in InheritedKeys THEN "inherited"
  ELSE "undefined"

\* the draws of Math.random() of one cycle: one per load that is on (the loop
\* continues before the draw for a load that is off; 0 stands for "no draw")
Noises(st) ==
  { n \in [LoadIds -> NoiseSet \cup {0}] :
      \A id \in LoadIds : (n[id] = 0) <=> ~st.loads[id].on }

\* SetOn with the bug "the flag of every load is set"
SetOn_All(st, loadId, on) ==
  IF LoadsLookup(loadId) = "own"
    THEN [st EXCEPT !.loads =
            [id \in LoadIds |-> [st.loads[id] EXCEPT !.on = Truthy(on)]]]
    ELSE st

\* state.loads[loadId].on = !!on
SetOn(st, loadId, on) ==
  IF LoadsLookup(loadId) = "own"
    THEN [st EXCEPT !.loads[loadId].on = Truthy(on)]
    ELSE st

\* app.get("/api/status"): the new state and the response
GetStatus(st, t, noise) ==
  LET st2 == updateFakeReadings(st, t, noise)
  IN  [ state |-> st2, cycled |-> TRUE, objectOn |-> "keep",
        resp |-> [ code |-> 200, body |-> st2 ] ]

\* app.post("/api/control"): the new state and the response
PostControl(st, loadId, on, t, noise) ==
  IF LoadsLookup(loadId) = "undefined"
    THEN [ state |-> st, cycled |-> FALSE, objectOn |-> "keep",
           resp |-> [ code |-> 400, body |-> [ error |-> "Unknown loadId" ] ] ]
    ELSE LET st2 == updateFakeReadings(SetOn(st, loadId, on), t, noise)
         IN  [ state |-> st2, cycled |-> TRUE,
               objectOn |-> IF LoadsLookup(loadId) = "inherited"
                              THEN (IF Truthy(on) THEN "true" ELSE "false")
                              ELSE "keep",
               resp |-> [ code |-> 200, body |-> [ ok |-> TRUE, state |-> st2 ] ] ]

\* the server runs one handler to completion
Serve(out) ==
  /\ out.cycled => cycles < MaxCycles
  /\ state' = out.state
  /\ objectOn' = IF out.objectOn = "keep" THEN objectOn ELSE out.objectOn
  /\ cycles' = IF out.cycled THEN cycles + 1 ELSE cycles
  /\ UNCHANGED now

\* the handler's cycle makes some energy reading grow
Grows(out) ==
  /\ out.cycled
  /\ \E id \in LoadIds :
       out.state.loads[id].energy_Wh # state.loads[id].energy_Wh

\* the server runs to completion a handler whose cycle makes no reading
\* grow; such cycles need no bound and are not counted
ServeIdle(out) ==
  /\ ~Grows(out)
  /\ state' = out.state
  /\ objectOn' = IF out.objectOn = "keep" THEN objectOn ELSE out.objectOn
  /\ UNCHANGED <<cycles, now>>

\* the exchange with a direct caller is recorded
Observe(req, out) ==
  /\ lastReq' = req
  /\ prev' = state
  /\ resp' = out.resp

NoRequest == [ method |-> "NONE", loadId |-> "", on |-> "absent" ]

\* a request from any HTTP caller, handled to completion
DirectStatus ==
  /\ \E noise \in Noises(state) :
       LET out == GetStatus(state, now, noise)
       IN  /\ Serve(out)
           /\ Observe([ method |-> "GET", loadId |-> "", on |-> "absent" ], out)
  /\ UNCHANGED clientVars

DirectControl ==
  /\ \E loadId \in RequestIds, on \in OnValues :
     \E noise \in Noises(SetOn(state, loadId, on)) :
       LET out == PostControl(state, loadId, on, now, noise)
       IN  /\ Serve(out)
           /\ Observe([ method |-> "POST", loadId |-> loadId, on |-> on ], out)
  /\ UNCHANGED clientVars

\* a second of wall-clock time passes
Tick ==
  /\ now < MaxTime
  /\ now' = now + 1
  /\ UNCHANGED <<serverVars, observed, clientVars>>

(* ------------------------------ render -------------------------------- *)
\* a property of an object is present
Has(obj, key) == key \in DOMAIN obj

\* an object without properties
EmptyObject == << >>

\* the keys of a loads object in insertion order, which JSON keeps
LoadOrder == <<"lamp", "charger", "fan">>

\* Object.entries(loads), as the sequence of its keys
Entries(loads) == SelectSeq(LoadOrder, LAMBDA id : Has(loads, id))

\* l.power_W || 0
PowerOrZero(l) == IF Has(l, "power_W") THEN l.power_W ELSE 0

\* reduce((sum, [, l]) => sum + (l.power_W || 0), 0)
RECURSIVE SumPowerW(_, _)
SumPowerW(ids, loads) ==
  IF ids = << >>
    THEN 0
    ELSE SumPowerW(SubSeq(ids, 1, Len(ids) - 1), loads)
           + PowerOrZero(loads[ids[Len(ids)]])

\* Summary with the bug "the fan is counted in the total power"
Summary_WithFan(st) ==
  LET threshold ==
        IF st # Null /\ Has(st, "thresholds") /\ Has(st.thresholds, "highUsage_W")
          THEN st.thresholds.highUsage_W
          ELSE Null
  IN  IF st = Null \/ ~Has(st, "loads")
        THEN [ totalPower |-> IF st # Null /\ Has(st, "totalPower_W")
                               THEN st.totalPower_W ELSE 0,
               devicesOn |-> 0,
               totalDevices |-> 0,
               thresholdW |-> threshold ]
        ELSE LET entries == Entries(st.loads)
                 totalP == IF Has(st, "totalPower_W")
                             THEN st.totalPower_W
                             ELSE SumPowerW(entries, st.loads)
                 onCount == Len(SelectSeq(entries, LAMBDA id : st.loads[id].on))
             IN  [ totalPower |-> totalP,
                   devicesOn |-> onCount,
                   totalDevices |-> Len(entries),
                   thresholdW |-> threshold ]

\* the summary numbers (useMemo); a totalPower_W that is not a number is
\* modelled by its absence
Summary(st) ==
  LET threshold ==
        IF st # Null /\ Has(st, "thresholds") /\ Has(st.thresholds, "highUsage_W")
          THEN st.thresholds.highUsage_W
          ELSE Null
  IN  IF st = Null \/ ~Has(st, "loads")
        THEN [ totalPower |-> IF st # Null /\ Has(st, "totalPower_W")
                               THEN st.totalPower_W ELSE 0,
               devicesOn |-> 0,
               totalDevices |-> 0,
               thresholdW |-> threshold ]
        ELSE LET entries == Entries(st.loads)
                 monitoredEntries == SelectSeq(entries, LAMBDA id : id # "fan")
                 totalP == IF Has(st, "totalPower_W")
                             THEN st.totalPower_W
                             ELSE SumPowerW(monitoredEntries, st.loads)
                 onCount == Len(SelectSeq(entries, LAMBDA id : st.loads[id].on))
             IN  [ totalPower |-> totalP,
                   devicesOn |-> onCount,
                   totalDevices |-> Len(entries),
                   thresholdW |-> threshold ]

\* 0.0001 W, the total at or below which the chart is a placeholder
PieEpsilon == 1

\* a rational number, not reduced
Rat(n, d) == [ num |-> n, den |-> d ]

\* PieIds with the bug "the fan is not filtered out"
PieIds_WithFan(loads) == Entries(loads)

\* Object.entries(loads).filter(([id]) => id !== "fan"), as keys
PieIds(loads) == SelectSeq(Entries(loads), LAMBDA id : id # "fan")

\* Math.max(0, l.power_W || 0)
PiePower(l) == Max(0, PowerOrZero(l))

\* entries.reduce((s, e) => s + e.power, 0)
RECURSIVE PieTotal(_, _)
PieTotal(ids, loads) ==
  IF ids = << >>
    THEN 0
    ELSE PieTotal(SubSeq(ids, 1, Len(ids) - 1), loads)
           + PiePower(loads[ids[Len(ids)]])

\* LargeArc with the bug ">= instead of >"
LargeArc_AtHalf(angle, total) == IF angle >= 2 * total THEN 1 ELSE 0

\* angle > Math.PI ? 1 : 0, for an angle of angle/total quarter turns
LargeArc(angle, total) == IF angle > 2 * total THEN 1 ELSE 0

\* entries.map(...) of the chart: the slices of the loads ids, the first one
\* starting at startAngle.  Angles are exact rationals in quarter turns
\* (Math.PI / 2), with denominator total: fraction * Math.PI * 2 is
\* 4 * power / total.
RECURSIVE Slices(_, _, _, _)
Slices(ids, loads, total, startAngle) ==
  IF ids = << >>
    THEN << >>
    ELSE LET id == Head(ids)
             l == loads[id]
             power == PiePower(l)
             angle == 4 * power
             endAngle == startAngle + angle
         IN  << [ key |-> id,
                  label |-> IF Has(l, "name") THEN l.name ELSE id,
                  value |-> power,
                  fraction |-> Rat(power, total),
                  startAngle |-> Rat(startAngle, total),
                  endAngle |-> Rat(endAngle, total),
                  largeArc |-> LargeArc(angle, total) ] >>
             \o Slices(Tail(ids), loads, total, endAngle)

\* PowerPieChart({ loads }): the shell shown and the slices drawn
PowerPieChart(loads) ==
  IF loads = Null
    THEN [ shell |-> "Waiting for data...", slices |-> << >> ]
    ELSE LET ids == PieIds(loads)
             total == PieTotal(ids, loads)
         IN  IF total <= PieEpsilon
               THEN [ shell |-> "Monitored loads at 0 W", slices |-> << >> ]
               ELSE [ shell |-> "svg",
                      slices |-> Slices(ids, loads, total, -total) ]

\* one render of App: the summary numbers and <PowerPieChart loads=... />
Render(st) ==
  [ summary |-> Summary(st),
    pie |-> PowerPieChart(IF st # Null /\ Has(st, "loads") THEN st.loads
                                                           ELSE Null) ]

\* no render is modelled (yet)
NotRendered == [ none |-> TRUE ]

(* ------------------------------ client -------------------------------- *)
\* IntervalTick with the bug "polling stops while an error is shown"
IntervalTick_StopOnError ==
  /\ timer = "set"
  /\ error = NoError
  /\ BagCardinality(polls) < MaxPolls
  /\ polls' = polls (+) One(Poll("sent", NoBody))
  /\ UNCHANGED <<status, loading, error, lastUpdated, cancelled, timer, cmds,
                 pending, derived>>
  /\ UNCHANGED <<serverVars, observed, now>>

\* IntervalTick with the bug "a tick waits for the outstanding fetch"
IntervalTick_Serialized ==
  /\ timer = "set"
  /\ polls = EmptyBag
  /\ polls' = polls (+) One(Poll("sent", NoBody))
  /\ UNCHANGED <<status, loading, error, lastUpdated, cancelled, timer, cmds,
                 pending, derived>>
  /\ UNCHANGED <<serverVars, observed, now>>

\* the interval fires: fetchStatus starts and sends its request
IntervalTick ==
  /\ timer = "set"
  /\ BagCardinality(polls) < MaxPolls
  /\ polls' = polls (+) One(Poll("sent", NoBody))
  /\ UNCHANGED <<status, loading, error, lastUpdated, cancelled, timer, cmds,
                 pending, derived>>
  /\ UNCHANGED <<serverVars, observed, now>>

\* the cleanup of the polling effect
Teardown ==
  /\ timer = "set"
  /\ cancelled' = TRUE
  /\ timer' = "cleared"
  /\ UNCHANGED <<status, loading, error, lastUpdated, polls, cmds, pending,
                 derived>>
  /\ UNCHANGED <<serverVars, observed, now>>

\* the server handles a status request of the client
ServePoll ==
  /\ BagIn(Poll("sent", NoBody), polls)
  /\ \E noise \in Noises(state) :
       LET out == GetStatus(state, now, noise)
       IN  /\ Serve(out)
           /\ polls' = (polls (-) One(Poll("sent", NoBody)))
                         (+) One(Poll("ok", out.resp.body))
  /\ UNCHANGED <<status, loading, error, lastUpdated, cancelled, timer, cmds,
                 pending, derived>>
  /\ UNCHANGED observed

\* a status request fails: the transport loses it or its answer (fetch
\* rejects), an error status is answered for it (res.ok is false), or the
\* body cannot be read (res.json() rejects)
PollFail ==
  /\ \E p \in BagToSet(polls) :
       /\ p.phase \in {"sent", "ok", "json"}
       /\ polls' = (polls (-) One(p)) (+) One(Poll("failed", NoBody))
  /\ UNCHANGED <<status, loading, error, lastUpdated, cancelled, timer, cmds,
                 pending, derived>>
  /\ UNCHANGED <<serverVars, observed, now>>

\* FetchStatusCatch with the bug "a failed poll drops the snapshot"
FetchStatusCatch_DropStatus ==
  IF ~cancelled
    THEN /\ error' = "Lost connection to device"
         /\ loading' = FALSE
         /\ status' = Null
         /\ UNCHANGED lastUpdated
    ELSE UNCHANGED <<status, loading, error, lastUpdated>>

\* FetchStatusCatch with the bug "a failed poll shows the spinner again"
FetchStatusCatch_Reloading ==
  IF ~cancelled
    THEN /\ error' = "Lost connection to device"
         /\ loading' = TRUE
         /\ UNCHANGED <<status, lastUpdated>>
    ELSE UNCHANGED <<status, loading, error, lastUpdated>>

\* the catch block of fetchStatus
FetchStatusCatch ==
  IF ~cancelled
    THEN /\ error' = "Lost connection to device"
         /\ loading' = FALSE
         /\ UNCHANGED <<status, lastUpdated>>
    ELSE UNCHANGED <<status, loading, error, lastUpdated>>

\* fetchStatus resumes after "await fetch" (res.ok is tested), or in its catch
\* block after a failure
FetchStatusResolved ==
  /\ \E p \in BagToSet(polls) :
       \/ /\ p.phase = "ok"
          /\ polls' = (polls (-) One(p)) (+) One(Poll("json", p.body))
          /\ UNCHANGED <<status, loading, error, lastUpdated>>
       \/ /\ p.phase = "failed"
          /\ polls' = polls (-) One(p)
          /\ FetchStatusCatch
  /\ UNCHANGED <<cancelled, timer, cmds, pending, derived>>
  /\ UNCHANGED <<serverVars, observed, now>>

\* FetchStatusApply with the bug "cancelled is not tested"
FetchStatusApply_NoCancel(data) ==
  /\ status' = data
  /\ error' = NoError
  /\ lastUpdated' = [ at |-> now ]
  /\ loading' = FALSE

\* FetchStatusApply with the bug "setError(null) is missing"
FetchStatusApply_KeepError(data) ==
  IF cancelled
    THEN UNCHANGED <<status, loading, error, lastUpdated>>
    ELSE /\ status' = data
         /\ lastUpdated' = [ at |-> now ]
         /\ loading' = FALSE
         /\ UNCHANGED error

\* fetchStatus resumes after "await res.json()": the snapshot is applied
FetchStatusApply(data) ==
  IF cancelled
    THEN UNCHANGED <<status, loading, error, lastUpdated>>
    ELSE /\ status' = data
         /\ error' = NoError
         /\ lastUpdated' = [ at |-> now ]
         /\ loading' = FALSE

FetchStatusJson ==
  /\ \E p \in BagToSet(polls) :
       /\ p.phase = "json"
       /\ polls' = polls (-) One(p)
       /\ FetchStatusApply(p.body)
  /\ pending' = IF cancelled THEN pending ELSE {}
  /\ UNCHANGED derived
  /\ UNCHANGED <<cancelled, timer, cmds>>
  /\ UNCHANGED <<serverVars, observed, now>>

\* ToggleLoad with the bug "the fan is not exempted"
ToggleLoad_FanToo ==
  /\ timer = "set"
  /\ \E loadId \in LoadIds, currentOn \in BOOLEAN :
       /\ BagCardinality(cmds) < MaxCmds
       /\ cmds' = cmds (+) One(Cmd("sent", loadId, ~currentOn))
  /\ UNCHANGED <<status, loading, error, lastUpdated, cancelled, timer, polls,
                 pending, derived>>
  /\ UNCHANGED <<serverVars, observed, now>>

\* toggleLoad(loadId, currentOn) is called and runs up to "await fetch"
ToggleLoad ==
  /\ timer = "set"
  /\ \E loadId \in LoadIds, currentOn \in BOOLEAN :
       IF loadId = "fan"
         THEN UNCHANGED cmds
         ELSE /\ BagCardinality(cmds) < MaxCmds
              /\ cmds' = cmds (+) One(Cmd("sent", loadId, ~currentOn))
  /\ UNCHANGED <<status, loading, error, lastUpdated, cancelled, timer, polls,
                 pending, derived>>
  /\ UNCHANGED <<serverVars, observed, now>>

\* JSON.stringify of a boolean
Json(b) == IF b THEN "true" ELSE "false"

\* the server handles a control request of the client
ServeCmd ==
  /\ \E c \in BagToSet(cmds) :
       /\ c.phase = "sent"
       /\ \E noise \in Noises(SetOn(state, c.loadId, Json(c.on))) :
            LET out == PostControl(state, c.loadId, Json(c.on), now, noise)
            IN  /\ Serve(out)
                /\ cmds' = (cmds (-) One(c))
                     (+) One(Cmd(IF out.resp.code = 200 THEN "ok" ELSE "failed",
                                 c.loadId, c.on))
  /\ UNCHANGED <<status, loading, error, lastUpdated, cancelled, timer, polls,
                 pending, derived>>
  /\ UNCHANGED observed

\* a control request fails: the transport loses it or its answer (fetch
\* rejects), or an error status is answered for it (res.ok is false)
CmdFail ==
  /\ \E c \in BagToSet(cmds) :
       /\ c.phase \in {"sent", "ok"}
       /\ cmds' = (cmds (-) One(c)) (+) One(Cmd("failed", c.loadId, c.on))
  /\ UNCHANGED <<status, loading, error, lastUpdated, cancelled, timer, polls,
                 pending, derived>>
  /\ UNCHANGED <<serverVars, observed, now>>

\* OptimisticUpdate with the bug "a load switched off has its power zeroed"
OptimisticUpdate_ZeroPower(prevStatus, loadId, on) ==
  IF prevStatus = Null
    THEN prevStatus
    ELSE [prevStatus EXCEPT !.loads[loadId].on = on,
                            !.loads[loadId].power_W = IF on THEN @ ELSE 0]

\* the updater passed to setStatus by toggleLoad
OptimisticUpdate(prevStatus, loadId, on) ==
  IF prevStatus = Null
    THEN prevStatus
    ELSE [prevStatus EXCEPT !.loads[loadId].on = on]

\* toggleLoad after a fetch that resolved with res.ok
ToggleLoadThen(c) ==
  /\ status' = OptimisticUpdate(status, c.loadId, c.on)
  /\ error' = NoError
  /\ UNCHANGED <<loading, lastUpdated>>

\* ToggleLoadCatch with the bug "a failed command flips the local flag back"
ToggleLoadCatch_Rollback(c) ==
  /\ error' = "Failed to send command"
  /\ status' = OptimisticUpdate(status, c.loadId, ~c.on)
  /\ UNCHANGED <<loading, lastUpdated>>

\* the catch block of toggleLoad
ToggleLoadCatch(c) ==
  /\ error' = "Failed to send command"
  /\ UNCHANGED <<status, loading, lastUpdated>>

\* toggleLoad resumes after "await fetch": res.ok is tested
ToggleLoadResolved ==
  /\ \E c \in BagToSet(cmds) :
       \/ /\ c.phase = "ok"
          /\ cmds' = cmds (-) One(c)
          /\ ToggleLoadThen(c)
          /\ pending' = IF status = Null THEN pending
                                         ELSE pending \cup {c.loadId}
       \/ /\ c.phase = "failed"
          /\ cmds' = cmds (-) One(c)
          /\ ToggleLoadCatch(c)
          /\ UNCHANGED pending
  /\ UNCHANGED derived
  /\ UNCHANGED <<cancelled, timer, polls>>
  /\ UNCHANGED <<serverVars, observed, now>>

Init ==
  /\ state = InitState
  /\ objectOn = "undefined"
  /\ now = 0
  /\ cycles = 0
  /\ lastReq = NoRequest
  /\ prev = InitState
  /\ resp = [ code |-> 0, body |-> NoBody ]
  /\ status = Null
  /\ loading = TRUE
  /\ error = NoError
  /\ lastUpdated = Null
  /\ cancelled = FALSE
  /\ pending = {}
  /\ derived = NotRendered
  /\ timer = "set"
  /\ polls = SetToBag({ Poll("sent", NoBody) })
  /\ cmds = EmptyBag

\* the server handles a status request of the client, nothing growing
ServePollIdle ==
  /\ BagIn(Poll("sent", NoBody), polls)
  /\ \E noise \in Noises(state) :
       LET out == GetStatus(state, now, noise)
       IN  /\ ServeIdle(out)
           /\ polls' = (polls (-) One(Poll("sent", NoBody)))
                         (+) One(Poll("ok", out.resp.body))
  /\ UNCHANGED <<status, loading, error, lastUpdated, cancelled, timer, cmds,
                 pending, derived>>
  /\ UNCHANGED observed

\* the server handles a control request of the client, nothing growing
ServeCmdIdle ==
  /\ \E c \in BagToSet(cmds) :
       /\ c.phase = "sent"
       /\ \E noise \in Noises(SetOn(state, c.loadId, Json(c.on))) :
            LET out == PostControl(state, c.loadId, Json(c.on), now, noise)
            IN  /\ ServeIdle(out)
                /\ cmds' = (cmds (-) One(c))
                     (+) One(Cmd(IF out.resp.code = 200 THEN "ok" ELSE "failed",
                                 c.loadId, c.on))
  /\ UNCHANGED <<status, loading, error, lastUpdated, cancelled, timer, polls,
                 pending, derived>>
  /\ UNCHANGED observed

\* the server states after other callers have switched the lamp and then the
\* charger off: every current is 0, so that no later cycle changes a reading
IdleStates ==
  UNION { { updateFakeReadings(SetOn(s1, "charger", "false"), 0, n2) :
              n2 \in Noises(SetOn(s1, "charger", "false")) } :
          s1 \in { updateFakeReadings(SetOn(InitState, "lamp", "false"), 0, n1) :
                     n1 \in Noises(SetOn(InitState, "lamp", "false")) } }

\* one of them (once idle, the readings take no part in what follows)
IdleState == CHOOSE st \in IdleStates : TRUE

\* the component mounts against an idle server
InitIdle ==
  /\ state = IdleState
  /\ objectOn = "undefined"
  /\ now = 0
  /\ cycles = 2
  /\ lastReq = NoRequest
  /\ prev = state
  /\ resp = [ code |-> 0, body |-> NoBody ]
  /\ status = Null
  /\ loading = TRUE
  /\ error = NoError
  /\ lastUpdated = Null
  /\ cancelled = FALSE
  /\ pending = {}
  /\ derived = NotRendered
  /\ timer = "set"
  /\ polls = SetToBag({ Poll("sent", NoBody) })
  /\ cmds = EmptyBag

\* the client and an idle server, with no bound on the number of requests
NextIdle ==
  \/ IntervalTick
  \/ Teardown
  \/ ServePollIdle
  \/ PollFail
  \/ FetchStatusResolved
  \/ FetchStatusJson
  \/ ToggleLoad
  \/ ServeCmdIdle
  \/ CmdFail
  \/ ToggleLoadResolved

\* the interval keeps firing while it is set, the server answers the requests
\* that reach it, and the event loop runs the continuations that are ready;
\* failures, commands and the teardown may or may not happen
Fairness ==
  /\ WF_vars(IntervalTick)
  /\ WF_vars(ServePollIdle)
  /\ WF_vars(ServeCmdIdle)
  /\ WF_vars(FetchStatusResolved)
  /\ WF_vars(FetchStatusJson)
  /\ WF_vars(ToggleLoadResolved)

SpecIdle == InitIdle /\ [][NextIdle]_vars /\ Fairness

NextServer == DirectStatus \/ DirectControl \/ Tick

SpecServer == Init /\ [][NextServer]_vars

\* the client and the server it polls
Next ==
  \/ Tick
  \/ IntervalTick
  \/ Teardown
  \/ ServePoll
  \/ PollFail
  \/ FetchStatusResolved
  \/ FetchStatusJson
  \/ ToggleLoad
  \/ ServeCmd
  \/ CmdFail
  \/ ToggleLoadResolved

Spec == Init /\ [][Next]_vars

(* ------------------------- render of any status ------------------------ *)
\* power readings a status may carry, in 0.0001 W (30 W the largest)
PowerInputs == {-5, 0, 1, 300000}

\* a monitored load: any flag, any of the readings or none
LoadInputs(name) ==
  { [ name |-> name, on |-> on, power_W |-> p ] :
      on \in BOOLEAN, p \in PowerInputs }
  \cup { [ name |-> name, on |-> on ] : on \in BOOLEAN }

\* the fan: any flag, no power or 30 W
FanInputs ==
  { [ name |-> "Desk Fan", on |-> on, power_W |-> p ] :
      on \in BOOLEAN, p \in {0, 300000} }

\* loads objects, with and without a fan
LoadsInputs ==
  { [ lamp |-> a, charger |-> b, fan |-> c ] :
      a \in LoadInputs("Desk Lamp"), b \in LoadInputs("Phone Charger"),
      c \in FanInputs }
  \cup { [ lamp |-> a, charger |-> b ] :
      a \in LoadInputs("Desk Lamp"), b \in LoadInputs("Phone Charger") }

\* thresholds objects: with highUsage_W and without
ThresholdsInputs == { [ highUsage_W |-> 500000 ], EmptyObject }

\* values of a server-supplied totalPower_W
TotalPowerInputs == {0, 420000}

\* the local statuses rendered: null, the startup snapshot, and statuses
\* with any loads, with or without thresholds and totalPower_W
StatusInputs ==
  {Null, InitState}
  \cup { [ loads |-> l ] : l \in LoadsInputs }
  \cup { [ loads |-> l, thresholds |-> t ] :
           l \in LoadsInputs, t \in ThresholdsInputs }
  \cup { [ loads |-> l, totalPower_W |-> w ] :
           l \in LoadsInputs, w \in TotalPowerInputs }
  \cup { [ loads |-> l, thresholds |-> t, totalPower_W |-> w ] :
           l \in LoadsInputs, t \in ThresholdsInputs, w \in TotalPowerInputs }

\* App is about to render with some status
InitRender ==
  /\ state = InitState
  /\ objectOn = "undefined"
  /\ now = 0
  /\ cycles = 0
  /\ lastReq = NoRequest
  /\ prev = InitState
  /\ resp = [ code |-> 0, body |-> NoBody ]
  /\ status \in StatusInputs
  /\ loading = (status = Null)
  /\ error = NoError
  /\ lastUpdated = IF status = Null THEN Null ELSE [ at |-> 0 ]
  /\ cancelled = FALSE
  /\ pending = {}
  /\ derived = NotRendered
  /\ timer = "set"
  /\ polls = EmptyBag
  /\ cmds = EmptyBag

\* the render
RenderApp ==
  /\ derived = NotRendered
  /\ derived' = Render(status)
  /\ UNCHANGED <<status, loading, error, lastUpdated, cancelled, timer, polls,
                 cmds, pending>>
  /\ UNCHANGED <<serverVars, observed, now>>

SpecRender == InitRender /\ [][RenderApp]_vars

(* ------------------------- properties: server -------------------------- *)
\* the snapshot a 200 response carries
Snapshot == IF lastReq.method = "POST" THEN resp.body.state ELSE resp.body

LoadConsistent(l) ==
  /\ ~l.on => l.current_A = 0 /\ l.power_W = 0
  /\ l.on => l.power_W = l.voltage_V * l.current_A * 10

StateConsistent(st) == \A id \in LoadIds : LoadConsistent(st.loads[id])

\* C1: at startup and after any sequence of requests every load of the server
\* state, and of every snapshot returned, has current 0 and power 0 when off
\* and power = voltage * current when on.
C1_ReadingsConsistent ==
  /\ StateConsistent(state)
  /\ resp.code = 200 => StateConsistent(Snapshot)

\* C1 witness: a control request switched the lamp off after an earlier cycle
\* had changed the charger's current.
C1_Witness ==
  /\ lastReq.method = "POST" /\ resp.code = 200
  /\ ~Snapshot.loads["lamp"].on
  /\ prev.loads["lamp"].power_W > 0
  /\ prev.loads["charger"].current_A # InitState.loads["charger"].current_A

\* C2: a POST /api/control whose loadId is not lamp, charger or fan is answered
\* 400 and leaves the whole server state as it was, with no cycle run.
C2_UnknownLoadRejected ==
  (lastReq.method = "POST" /\ lastReq.loadId \notin LoadIds)
    => resp.code = 400 /\ state = prev

\* The statement of C2 for the ids found neither in state.loads nor on its
\* prototype chain, where the code agrees with it.
C2_AbsentKeys ==
  LoadsLookup(lastReq.loadId) = "undefined" => C2_UnknownLoadRejected

\* C3: the state returned by a successful POST /api/control(loadId, on) has
\* loads[loadId].on equal to the requested value and is the result of one
\* cycle run after the flag change; a load switched off is returned with
\* power 0 and current 0.
C3_ResponseReflectsChange ==
  (lastReq.method = "POST" /\ resp.code = 200)
    => /\ resp.body.state = state
       /\ lastReq.loadId \in DOMAIN resp.body.state.loads
       /\ resp.body.state.loads[lastReq.loadId].on = Truthy(lastReq.on)
       /\ ~Truthy(lastReq.on) =>
            /\ resp.body.state.loads[lastReq.loadId].power_W = 0
            /\ resp.body.state.loads[lastReq.loadId].current_A = 0
       /\ \E noise \in Noises(resp.body.state) :
            resp.body.state =
              updateFakeReadings(SetOn(prev, lastReq.loadId, lastReq.on),
                                 resp.body.state.timestamp, noise)

\* The statement of C3 for the three loads of the state, where the code
\* agrees with it.
C3_KnownLoads ==
  lastReq.loadId \in LoadIds => C3_ResponseReflectsChange

\* C4: across every cycle no load's energy decreases; a load that is off
\* keeps its energy, a load that is on gains the freshly computed power
\* (power_W / 3600 Wh).
C4_EnergyMonotone ==
  resp.code = 200 =>
    \A id \in LoadIds :
      /\ state.loads[id].energy_Wh >= prev.loads[id].energy_Wh
      /\ ~state.loads[id].on =>
           state.loads[id].energy_Wh = prev.loads[id].energy_Wh
      /\ state.loads[id].on =>
           state.loads[id].energy_Wh
             = prev.loads[id].energy_Wh + state.loads[id].power_W

\* C4 witness: a status poll ran a cycle with the lamp on (energy grew) and
\* the charger off (energy kept).
C4_Witness ==
  /\ lastReq.method = "GET"
  /\ state.loads["lamp"].on
  /\ state.loads["lamp"].energy_Wh > prev.loads["lamp"].energy_Wh
  /\ ~state.loads["charger"].on
  /\ state.loads["charger"].energy_Wh = prev.loads["charger"].energy_Wh

\* C5: the alert list is rebuilt by every cycle: one HIGH_USAGE alert for the
\* fan when the fan is on above the threshold, empty otherwise; never more
\* than one entry.
C5_AlertsRebuilt ==
  /\ Len(state.alerts) <= 1
  /\ IF state.loads["fan"].on
          /\ state.loads["fan"].power_W > state.thresholds.highUsage_W
       THEN /\ Len(state.alerts) = 1
            /\ state.alerts[1].type = "HIGH_USAGE"
            /\ state.alerts[1].loadId = "fan"
       ELSE state.alerts = << >>

\* C5 witness: two cycles have run with the fan on.
C5_Witness ==
  /\ cycles >= 2
  /\ prev.loads["fan"].on
  /\ state.loads["fan"].on
  /\ state.alerts = << >>

(* ------------------------- properties: client -------------------------- *)
\* C6: once the polling effect is torn down it stays torn down, no status
\* request is issued any more, and no step that completes a status request
\* (any step that leaves the commands in progress alone) changes status,
\* error, loading or lastUpdated.
C6_NoUpdateAfterTeardown ==
  [][ cancelled =>
        /\ cancelled' /\ timer' = "cleared"
        /\ CopiesIn(Poll("sent", NoBody), polls')
             <= CopiesIn(Poll("sent", NoBody), polls)
        /\ BagCardinality(polls') <= BagCardinality(polls)
        /\ cmds' = cmds => view' = view ]_vars

\* C6 witness: the effect is torn down and the first status request, issued
\* before teardown and answered by the server, has completed without effect.
C6_Witness ==
  /\ cancelled /\ timer = "cleared"
  /\ polls = EmptyBag /\ cmds = EmptyBag
  /\ cycles = 1
  /\ status = Null /\ loading /\ error = NoError /\ lastUpdated = Null

\* C7: a status poll that fails before teardown leaves status and
\* lastUpdated as they were, sets the connectivity error and clears loading.
C7_PollFailureKeepsStatus ==
  [][ \A p \in BagToSet(polls) :
        (~cancelled /\ p.phase = "failed" /\ polls' = polls (-) One(p))
          => /\ status' = status
             /\ lastUpdated' = lastUpdated
             /\ error' = "Lost connection to device"
             /\ loading' = FALSE ]_vars

\* C7 witness: a poll failed after a good snapshot had been received.
C7_Witness ==
  /\ ~cancelled
  /\ error = "Lost connection to device"
  /\ status # Null /\ lastUpdated # Null /\ ~loading

\* C8: a status poll that succeeds before teardown replaces the whole local
\* status by the received snapshot, clears any error, records lastUpdated
\* and clears loading.
C8_PollSuccessReplaces ==
  [][ \A p \in BagToSet(polls) :
        (~cancelled /\ p.phase = "json" /\ polls' = polls (-) One(p))
          => /\ status' = p.body
             /\ error' = NoError
             /\ lastUpdated' = [ at |-> now ]
             /\ loading' = FALSE ]_vars

\* C8 witness: the server's snapshot with the lamp switched off by a command
\* has been applied at time 1, and no error is shown.
C8_Witness ==
  /\ ~cancelled
  /\ status = state /\ ~status.loads["lamp"].on
  /\ polls = EmptyBag
  /\ error = NoError /\ lastUpdated = [ at |-> 1 ] /\ ~loading

\* C9: a control command that fails sets the command-failure error and
\* changes nothing else: status (the toggled load's flag included), loading
\* and lastUpdated stay as they were.
C9_CommandFailureNoRollback ==
  [][ \A c \in BagToSet(cmds) :
        (c.phase = "failed" /\ cmds' = cmds (-) One(c))
          => /\ error' = "Failed to send command"
             /\ status' = status
             /\ loading' = loading
             /\ lastUpdated' = lastUpdated ]_vars

\* C9 witness: a command to switch the lamp off failed; the local snapshot
\* still shows the lamp on.
C9_Witness ==
  /\ error = "Failed to send command"
  /\ cmds = EmptyBag
  /\ status # Null /\ status.loads["lamp"].on /\ status.loads["charger"].on

\* the fields of a local snapshot a toggle of loadId must not touch
SameButOn(a, b, loadId) ==
  /\ a.timestamp = b.timestamp
  /\ a.thresholds = b.thresholds
  /\ a.alerts = b.alerts
  /\ DOMAIN a.loads = DOMAIN b.loads
  /\ \A id \in DOMAIN b.loads \ {loadId} : a.loads[id] = b.loads[id]
  /\ a.loads[loadId].name = b.loads[loadId].name
  /\ a.loads[loadId].voltage_V = b.loads[loadId].voltage_V
  /\ a.loads[loadId].current_A = b.loads[loadId].current_A
  /\ a.loads[loadId].power_W = b.loads[loadId].power_W
  /\ a.loads[loadId].energy_Wh = b.loads[loadId].energy_Wh

\* C10: a control command that succeeds clears error and, when the local
\* status is not null, sets loads[loadId].on to the negation of currentOn and
\* changes nothing else of it; a null status stays null; loading and
\* lastUpdated are not touched.
C10_OptimisticUpdateFrame ==
  [][ \A c \in BagToSet(cmds) :
        (c.phase = "ok" /\ cmds' = cmds (-) One(c))
          => /\ error' = NoError
             /\ loading' = loading
             /\ lastUpdated' = lastUpdated
             /\ status = Null => status' = Null
             /\ status # Null =>
                  /\ status' # Null
                  /\ status'.loads[c.loadId].on = c.on
                  /\ SameButOn(status', status, c.loadId) ]_vars

\* C10 witness: the lamp is shown off with the power reading it had while on.
C10_Witness ==
  /\ status # Null
  /\ ~status.loads["lamp"].on
  /\ status.loads["lamp"].power_W > 0
  /\ error = NoError

(* --------------------- properties: second group ------------------------ *)
\* C11: a manual toggle of the fan is a no-op at the client: no call of
\* toggleLoad changes status, error, loading or lastUpdated or starts a
\* control request for the fan, no such request is ever in progress, and
\* with this client as the only caller the server's fan.on flag keeps its
\* startup value.
C11_FanToggleNoOp ==
  /\ [](\A c \in BagToSet(cmds) : c.loadId # "fan")
  /\ [](state.loads["fan"].on = InitState.loads["fan"].on)
  /\ [][ToggleLoad => /\ view' = view
                      /\ \A c \in BagToSet(cmds') : c.loadId # "fan"]_vars

\* C11 witness: toggleLoad("fan", false) is callable (the effect is active and
\* the local snapshot shows the fan off) and, being a step that changes
\* nothing, has left this very state: nothing is in progress, while a command
\* for the lamp did reach the server.
C11_Witness ==
  /\ timer = "set"
  /\ status # Null /\ ~status.loads["fan"].on
  /\ cmds = EmptyBag /\ polls = EmptyBag
  /\ ~state.loads["lamp"].on /\ ~state.loads["fan"].on

\* C12: a successful POST /api/control for load X leaves the on flag, name
\* and voltage of every other load and the thresholds as they were, the
\* other readings of the other loads change as by one cycle, and
\* thresholds.highUsage_W has its startup value in every reachable state.
C12_ControlFrame ==
  /\ state.thresholds = InitState.thresholds
  /\ (lastReq.method = "POST" /\ resp.code = 200) =>
       /\ state.thresholds = prev.thresholds
       /\ \A id \in LoadIds \ {lastReq.loadId} :
            /\ state.loads[id].on = prev.loads[id].on
            /\ state.loads[id].name = prev.loads[id].name
            /\ state.loads[id].voltage_V = prev.loads[id].voltage_V
            /\ \E n \in NoiseSet \cup {0} :
                 state.loads[id] = UpdateLoad(prev.loads[id], n)

\* C12 witness: the lamp was switched off by a request while the charger
\* stayed on and the fan stayed off.
C12_Witness ==
  /\ lastReq.method = "POST" /\ lastReq.loadId = "lamp" /\ resp.code = 200
  /\ prev.loads["lamp"].on /\ ~state.loads["lamp"].on
  /\ prev.loads["charger"].on /\ state.loads["charger"].on
  /\ ~state.loads["fan"].on

\* C18: the fan's current is 0, a load that is off has current 0, and a
\* load whose current is 0 before a request has current 0 and power 0 after
\* it and keeps its energy, whatever its flag is set to.
C18_ZeroCurrentAbsorbing ==
  /\ state.loads["fan"].current_A = 0
  /\ \A id \in LoadIds :
       /\ ~state.loads[id].on => state.loads[id].current_A = 0
       /\ prev.loads[id].current_A = 0 =>
            /\ state.loads[id].current_A = 0
            /\ state.loads[id].power_W = 0
            /\ state.loads[id].energy_Wh = prev.loads[id].energy_Wh

\* C18 witness: the lamp, switched off earlier, is switched on again by a
\* request whose cycle ran over it (and made the charger's energy grow).
C18_Witness ==
  /\ lastReq.method = "POST" /\ lastReq.loadId = "lamp" /\ resp.code = 200
  /\ ~prev.loads["lamp"].on /\ prev.loads["lamp"].current_A = 0
  /\ state.loads["lamp"].on /\ state.loads["lamp"].power_W = 0
  /\ state.loads["charger"].energy_Wh > prev.loads["charger"].energy_Wh

\* C19: in every reachable server state the fan's power is 0 and the alert
\* list is empty.
C19_NoAlertEver ==
  /\ state.loads["fan"].power_W = 0
  /\ state.alerts = << >>
  /\ prev.alerts = << >>
  /\ resp.code = 200 => Snapshot.alerts = << >>

\* C19 witness: the fan has been switched on by a request and a later status
\* poll ran a cycle over it.
C19_Witness ==
  /\ lastReq.method = "GET"
  /\ prev.loads["fan"].on /\ state.loads["fan"].on
  /\ state.loads["fan"].power_W = 0

\* C20: a local status that is not null comes with lastUpdated set and
\* loading false, and loading, once false, stays false.
C20_StatusImpliesLoaded ==
  /\ [](status # Null => lastUpdated # Null /\ ~loading)
  /\ [][~loading => ~loading']_vars

\* C20 witness: a command has succeeded at the server and at the client
\* while no snapshot was ever applied: status is still null.
C20_Witness ==
  /\ status = Null /\ lastUpdated = Null
  /\ ~state.loads["lamp"].on
  /\ cmds = EmptyBag /\ error = NoError


\* the local picture agrees with the server: no error is shown and every
\* load's local on flag is the server's
Reconciled ==
  /\ status # Null
  /\ error = NoError
  /\ \A id \in LoadIds : status.loads[id].on = state.loads[id].on

\* C16: the poll loop keeps running after failures: only the teardown clears
\* the timer, and while it is set a tick starts a status fetch whatever the
\* error shown. If the component is never torn down and from some point on no
\* status fetch fails and no command is sent, then eventually no error is
\* shown and the local on flags equal the server's, and it stays so.
\* (cancelled is never reset, so "never torn down" is the behaviours that do
\* not end up with cancelled true for ever.)
C16_PollingReconciles ==
  /\ [][timer' # timer => cancelled']_vars
  /\ [](timer = "set" /\ BagCardinality(polls) < MaxPolls
          => ENABLED IntervalTick)
  /\ <>[][~PollFail /\ ~ToggleLoad]_vars => <>[](cancelled \/ Reconciled)

\* C16 witness: the effect is active, the lamp has been switched on at the
\* server by a command, and a snapshot applied after the optimistic update
\* shows it on, with no error.
C16_Witness ==
  /\ ~cancelled /\ Reconciled
  /\ state.loads["lamp"].on
  /\ pending = {}
  /\ cmds = EmptyBag

\* C17: status polls are not serialized: a tick starts a status fetch while
\* earlier ones are outstanding. Responses are applied in the order they
\* arrive: the response applied sets every local on flag to its own,
\* whatever else is in flight and whichever flags a command had set
\* optimistically.
C17_PollsNotSerialized ==
  /\ [](timer = "set" /\ polls # EmptyBag /\ BagCardinality(polls) < MaxPolls
          => ENABLED IntervalTick)
  /\ [][ \A p \in BagToSet(polls) :
          (~cancelled /\ p.phase = "json" /\ polls' = polls (-) One(p))
            => \A id \in LoadIds :
                 status'.loads[id].on = p.body.loads[id].on ]_vars

\* C17 witness: two status fetches are in flight; a command switched the
\* lamp on at the server and resolved at the client, which set the local
\* flag; the response of a status request handled before the command, with
\* the lamp off, has arrived and is ready to be applied.
C17_Witness ==
  /\ ~cancelled
  /\ BagCardinality(polls) = 2
  /\ "lamp" \in pending
  /\ status.loads["lamp"].on /\ state.loads["lamp"].on
  /\ cmds = EmptyBag /\ error = NoError
  /\ \E p \in BagToSet(polls) :
       p.phase = "json" /\ ~p.body.loads["lamp"].on

(* ------------------------- properties: render -------------------------- *)
\* the sum of f over the set S
RECURSIVE SumOf(_, _)
SumOf(S, f) ==
  IF S = {}
    THEN 0
    ELSE LET x == CHOOSE y \in S : TRUE
         IN  f[x] + SumOf(S \ {x}, f)

\* a status with loads has been rendered
Rendered == derived # NotRendered /\ status # Null /\ Has(status, "loads")

\* the loads of the status other than the fan
Monitored == DOMAIN status.loads \ {"fan"}

\* C13: for a status with loads, totalPower is the status' totalPower_W when
\* it has one and otherwise the sum of power_W (0 where absent) over the
\* loads other than the fan; devicesOn is the number of loads that are on and
\* totalDevices the number of loads, the fan included; thresholdW is
\* thresholds.highUsage_W, or null when absent. For the startup snapshot
\* totalPower is 36 W, devicesOn 2 and totalDevices 3.
C13_DerivedMetrics ==
  /\ Rendered =>
       LET summary == derived.summary
           ids == DOMAIN status.loads
           powerW == [ id \in ids |->
                        IF Has(status.loads[id], "power_W")
                          THEN status.loads[id].power_W ELSE 0 ]
       IN  /\ summary.totalPower =
                IF Has(status, "totalPower_W")
                  THEN status.totalPower_W
                  ELSE SumOf(Monitored, powerW)
           /\ summary.devicesOn =
                Cardinality({ id \in ids : status.loads[id].on })
           /\ summary.totalDevices = Cardinality(ids)
           /\ IF Has(status, "thresholds")
                   /\ Has(status.thresholds, "highUsage_W")
                THEN summary.thresholdW = status.thresholds.highUsage_W
                ELSE summary.thresholdW = Null
  /\ (derived # NotRendered /\ status = InitState) =>
       /\ derived.summary.totalPower = 360000
       /\ derived.summary.devicesOn = 2
       /\ derived.summary.totalDevices = 3

\* C13 witness: a status without totalPower_W whose three loads are on, the
\* fan with 30 W: the total is the lamp's 30 W plus the charger's 0.0001 W
\* and three devices are on.
C13_Witness ==
  /\ Rendered
  /\ ~Has(status, "totalPower_W")
  /\ Has(status.loads, "fan")
  /\ status.loads["fan"].on /\ status.loads["fan"].power_W = 300000
  /\ derived.summary.totalPower = 300001
  /\ derived.summary.devicesOn = 3

\* the power of a load as the chart takes it: power_W, 0 where it is absent
\* or negative
ChartPower ==
  [ id \in Monitored |->
      IF Has(status.loads[id], "power_W") /\ status.loads[id].power_W > 0
        THEN status.loads[id].power_W ELSE 0 ]

ChartTotal == SumOf(Monitored, ChartPower)

\* C14: when the total power of the loads other than the fan is at most
\* 0.0001 W the chart has no slices and shows the placeholder; otherwise it
\* has one slice per load other than the fan, in entry order, none for the
\* fan, each with fraction power/total, and the fractions sum to 1.
C14_PieSlices ==
  Rendered =>
    LET slices == derived.pie.slices
    IN  IF ChartTotal <= 1
          THEN /\ slices = << >>
               /\ derived.pie.shell = "Monitored loads at 0 W"
          ELSE /\ [ i \in DOMAIN slices |-> slices[i].key ]
                    = SelectSeq(LoadOrder, LAMBDA id : id \in Monitored)
               /\ \A i \in DOMAIN slices :
                    /\ slices[i].key # "fan"
                    /\ slices[i].fraction
                         = Rat(ChartPower[slices[i].key], ChartTotal)
               /\ SumOf(DOMAIN slices,
                        [ i \in DOMAIN slices |-> slices[i].fraction.num ])
                    = ChartTotal

\* C14 witness: lamp and charger at 0.0001 W each, just above the
\* placeholder's limit, and a fan at 30 W: two slices of one half.
C14_Witness ==
  /\ Rendered
  /\ Has(status.loads, "fan") /\ status.loads["fan"].power_W = 300000
  /\ ChartTotal = 2
  /\ Len(derived.pie.slices) = 2
  /\ derived.pie.slices[1].fraction = Rat(1, 2)

\* an angle in quarter turns, in degrees times its denominator
Degrees(a) == a.num * 90

\* the span of a slice, in degrees times the denominator of its angles
Span(slice) == Degrees(slice.endAngle) - Degrees(slice.startAngle)

\* C15: when there are slices, the first starts at -90 degrees, every slice
\* spans fraction * 360 degrees and starts where the previous one ends, the
\* last one ends at 270 degrees, a slice has its large-arc flag set exactly
\* when it spans more than 180 degrees, and at most one slice has it set.
C15_PieLayout ==
  (Rendered /\ derived.pie.slices # << >>) =>
    LET slices == derived.pie.slices
        n == Len(slices)
    IN  /\ Degrees(slices[1].startAngle) = -90 * slices[1].startAngle.den
        /\ Degrees(slices[n].endAngle) = 270 * slices[n].endAngle.den
        /\ \A i \in 1..n :
             /\ slices[i].startAngle.den = slices[i].fraction.den
             /\ slices[i].endAngle.den = slices[i].fraction.den
             /\ Span(slices[i]) = 360 * slices[i].fraction.num
             /\ (slices[i].largeArc = 1)
                  <=> (Span(slices[i]) > 180 * slices[i].fraction.den)
             /\ slices[i].largeArc \in {0, 1}
        /\ \A i \in 1..(n - 1) : slices[i + 1].startAngle = slices[i].endAngle
        /\ Cardinality({ i \in 1..n : slices[i].largeArc = 1 }) <= 1

\* C15 witness: the lamp at 30 W and the charger at 0.0001 W: the lamp's
\* slice spans more than 180 degrees and has the flag, the charger's not.
C15_Witness ==
  /\ Rendered
  /\ Len(derived.pie.slices) = 2
  /\ derived.pie.slices[1].value = 300000
  /\ derived.pie.slices[2].value = 1
  /\ derived.pie.slices[1].largeArc = 1
  /\ derived.pie.slices[2].largeArc = 0

====
